---------------------------- MODULE Spec2Model ----------------------------
(***************************************************************************)
(* NSE event board: page monitors that scrape into JSON snapshot files,    *)
(* the supervisor start_all.py that runs them as threads of one process,   *)
(* and the Flask API (api.py) that serves paged slices of the snapshots.   *)
(*                                                                         *)
(* The monitors modelled are the two whose code is in the repository       *)
(* sources at hand, AnnouncementsMonitor (market type Equity) and          *)
(* CRDMonitor, as start_all.py starts them.  Both use the third-party      *)
(* package `schedule` through its module-level functions, which act on     *)
(* one process-wide default scheduler: schedule.every(..).do(f) appends a  *)
(* job to its job list and schedule.run_pending() runs every job of that   *)
(* list whose next_run has passed; a job's next_run is moved forward only  *)
(* after its function has returned.                                        *)
(***************************************************************************)
EXTENDS Integers, Sequences, FiniteSets, TLC

VARIABLES
    pc,         \* per monitor thread: position in start_monitoring
    driver,     \* per monitor: state of self.driver
    jobs,       \* job list of schedule's default scheduler (by monitor)
    due,        \* jobs whose next_run has passed (job.should_run)
    todo,       \* per thread: jobs its current run_pending() has yet to run
    call,       \* per thread: the run_single_scrape activation it executes
    fs,         \* the files: path -> content
    last_data,  \* per monitor: self.last_data
    now,        \* logical clock behind datetime.now() in scrape_timestamp
    api,        \* the request the API is handling
    resp,       \* the API's latest response
    walk,       \* a client paging through one endpoint
    saved,      \* history: per path, the timestamps save_latest has written
    faults,     \* file-system calls of the monitors that have failed
    unhealed,   \* history: monitors with a cycle lost to a dead session
                \*          and no _init_driver since
    scrape,     \* one scrape_all_pages followed step by step
    heat        \* the heatmap API (heatmap_api.py): its requests, its lock
                \* and its driver

vars == <<pc, driver, jobs, due, todo, call, fs, last_data, now, api, resp,
          walk, saved, faults, unhealed, scrape, heat>>

---------------------------------------------------------------------------
(* Bounds of the model.                                                    *)

\* Results a run may create (each takes a fresh scrape_timestamp).
MaxScrapes == 2
\* Rows of a snapshot.
MaxRows == 3
\* File-system calls of the monitors that may fail in a run (a json.dump
\* on a full disk, an os.listdir that raises).
MaxFaults == 1

---------------------------------------------------------------------------
(* Strings.  File names are sequences of characters, so that the code's    *)
(* lower(), startswith() and endswith() are computed, not assumed.         *)

UpperChars == <<"A","B","C","D","E","F","G","H","I","J","K","L","M",
                "N","O","P","Q","R","S","T","U","V","W","X","Y","Z">>
LowerChars == <<"a","b","c","d","e","f","g","h","i","j","k","l","m",
                "n","o","p","q","r","s","t","u","v","w","x","y","z">>

LowerChar(c) ==
    IF \E i \in DOMAIN UpperChars : UpperChars[i] = c
    THEN LowerChars[CHOOSE i \in DOMAIN UpperChars : UpperChars[i] = c]
    ELSE c

lower(s) == [i \in 1..Len(s) |-> LowerChar(s[i])]

startswith(s, p) == Len(p) <= Len(s) /\ SubSeq(s, 1, Len(p)) = p

endswith(s, x) == Len(x) <= Len(s) /\ SubSeq(s, Len(s) - Len(x) + 1, Len(s)) = x

Whitespace == {" ", "\n", "\t"}

\* str.strip(): leading and trailing whitespace removed
RECURSIVE lstrip(_)
lstrip(s) == IF s # <<>> /\ Head(s) \in Whitespace THEN lstrip(Tail(s)) ELSE s
RECURSIVE rstrip(_)
rstrip(s) ==
    IF s # <<>> /\ s[Len(s)] \in Whitespace THEN rstrip(SubSeq(s, 1, Len(s) - 1))
    ELSE s
strip(s) == rstrip(lstrip(s))

s_latest     == <<"l","a","t","e","s","t">>
s_latest_    == s_latest \o <<"_">>
s_json       == <<".","j","s","o","n">>
s_Equity     == <<"E","q","u","i","t","y">>
s_equity     == <<"e","q","u","i","t","y">>
s_sme        == <<"s","m","e">>
s_SME        == <<"S","M","E">>

\* 'latest.json'
n_latest_json == s_latest \o s_json
\* a timestamped file left by save_json, e.g. 'crd_1.json'
n_crd_hist == <<"c","r","d","_","1">> \o s_json
\* 'ann_equity_1.json', a timestamped file left by save_json
n_ann_hist == <<"a","n","n","_">> \o s_equity \o <<"_","1">> \o s_json
\* 'notes.txt', a file that is not JSON
n_notes_txt == <<"n","o","t","e","s",".","t","x","t">>

\* f'latest_{market.lower()}.json'
latest_market_json(market) == s_latest_ \o lower(market) \o s_json

---------------------------------------------------------------------------
(* The monitors of start_all.py and their output files.                    *)

Monitors == {"Announcements", "CRD"}

\* self.output_dir
output_dir(m) == IF m = "Announcements" THEN "announcements_data" ELSE "crd_data"

\* self.market_type (AnnouncementsMonitor only)
market_type(m) == s_Equity

\* os.path.join(dir, name)
join(dir, name) == <<dir, name>>

\* the file save_latest writes
latest_path(m) ==
    IF m = "Announcements"
    THEN join(output_dir(m), latest_market_json(market_type(m)))
    ELSE join(output_dir(m), n_latest_json)

\* latest_path, tabulated
LatestPath == [m \in Monitors |-> latest_path(m)]

\* the files of the model: what may be in each directory
FsPaths ==
    {join("announcements_data", n) :
        n \in {latest_market_json(s_equity), latest_market_json(s_sme),
               n_ann_hist, n_notes_txt}}
    \cup {join("crd_data", n) : n \in {n_latest_json, n_crd_hist}}
    \cup {join("event_calendar_data", n_latest_json)}
    \cup {join("credit_rating_data", n) :
        n \in {latest_market_json(s_equity), latest_market_json(s_sme)}}

\* file contents: no file, a file cut short (opened for writing, the dump
\* not completed), a file that is no snapshot, or a snapshot
Absent    == [kind |-> "absent"]
Truncated == [kind |-> "truncated"]
OtherFile == [kind |-> "other"]

\* Python's None
None == [kind |-> "none"]

\* the rows of a table with n rows: row i is the i-th row extracted
Rows(n) == [i \in 1..n |-> i]

\* the result dict of scrape_all_pages, with the rows and the timestamp
\* given: the snapshot of one page of a table without header texts
Result(ts, rows) ==
    [kind |-> "json",
     metadata |-> [scrape_timestamp |-> ts, total_records |-> Len(rows),
                   total_pages |-> 1, source_url |-> "https://www.nseindia.com/",
                   headers |-> <<>>],
     data |-> rows]

\* os.listdir(dir)
listdir(files, dir) == {p \in FsPaths : p[1] = dir /\ files[p] # Absent}

\* cleanup_old_files: the test that lets a file of the directory be removed
Removable(m, filename) ==
    /\ endswith(lower(filename), s_json)
    /\ IF m = "Announcements"
       THEN ~ startswith(filename, s_latest_ \o lower(market_type(m)))
       ELSE filename # n_latest_json

\* Removable, tabulated over the files of the monitor's directory
RemovablePaths ==
    [m \in Monitors |-> {p \in FsPaths : p[1] = output_dir(m) /\ Removable(m, p[2])}]

\* cleanup_old_files: the files it calls os.remove on, those of
\* os.listdir(self.output_dir) that pass the test
cleanup_targets(files, m) ==
    {p \in listdir(files, output_dir(m)) : p \in RemovablePaths[m]}

\* the files after os.remove of the paths of gone
remove(files, gone) == [p \in FsPaths |-> IF p \in gone THEN Absent ELSE files[p]]

\* cleanup_old_files: the files after it (every os.remove succeeding)
cleanup_old_files(files, m) == remove(files, cleanup_targets(files, m))

\* save_latest: the files after it, by the outcome of the write: the file
\* is opened for writing, which empties it, and json.dump either completes
\* or raises (the disk is full), which is caught and leaves the file cut
\* short
save_latest(files, m, data, outcome) ==
    IF outcome = "ok"
    THEN [files EXCEPT ![LatestPath[m]] = data]
    ELSE [files EXCEPT ![LatestPath[m]] = Truncated]

SaveOutcomes == {"ok", "dump_failed"}

---------------------------------------------------------------------------
(* The monitor threads.                                                    *)

\* no run_single_scrape on the thread's stack
NoCall == [mon |-> "none", at |-> "none", data |-> None]

\* a run_single_scrape of monitor m that has entered scrape_all_pages
Enter(m) == [mon |-> m, at |-> "scrape", data |-> None]

\* files found in the output directories at start: left by earlier runs
\* (save_json's timestamped files, another market's snapshot) or by hand
Leftover ==
    {join("announcements_data", n) :
        n \in {latest_market_json(s_sme), n_ann_hist, n_notes_txt}}
    \cup {join("crd_data", n_crd_hist)}

LeftoverContent(p) ==
    IF endswith(p[2], s_json) THEN Result(0, Rows(1)) ELSE OtherFile

NoRequest == [state |-> "idle", endpoint |-> "", market |-> <<>>,
              page |-> [given |-> FALSE, text |-> <<>>],
              per_page |-> [given |-> FALSE, text |-> <<>>], floor |-> 0]
NoResponse == [status |-> 0, success |-> FALSE]
NoWalk == [state |-> "idle", acc |-> <<>>, nonempty |-> TRUE]

\* no scrape_all_pages followed
NoScrape ==
    [state |-> "idle", m |-> "none", max_pages |-> 0, headers |-> <<>>,
     page |-> 0, all_data |-> <<>>, cells |-> <<>>, calls |-> 0, rows |-> 0, outcome |-> "none",
     result |-> None]

\* the request threads of the heatmap API's server (threaded=True)
Handlers == {"h1", "h2"}

\* the heatmap API at start: no request, driver_lock free,
\* heatmap_service.driver None (took, ops and page are history: whether the
\* request entered with driver_lock, the browser operations it made and the
\* page it read)
NoHeat ==
    [pc |-> [h \in Handlers |-> "idle"],
     req |-> [h \in Handlers |->
                [endpoint |-> "", category |-> [given |-> FALSE, text |-> ""],
                 index |-> [given |-> FALSE, text |-> ""]]],
     ret |-> [h \in Handlers |-> None],
     resp |-> [h \in Handlers |-> NoResponse],
     took |-> [h \in Handlers |-> FALSE],
     ops |-> [h \in Handlers |-> 0],
     page |-> [h \in Handlers |-> [cards |-> <<>>, nifty_elements |-> <<>>]],
     lock |-> "free",
     driver |-> "none"]

\* the monitors before start_monitoring, those of started in a thread that
\* is about to call it ("off": no thread runs the monitor)
InitMonitors(started) ==
    /\ pc = [t \in Monitors |-> IF t \in started THEN "start" ELSE "off"]
    /\ driver = [m \in Monitors |-> "none"]
    /\ jobs = {}
    /\ due = {}
    /\ todo = [t \in Monitors |-> <<>>]
    /\ call = [t \in Monitors |-> NoCall]
    /\ last_data = [m \in Monitors |-> None]
    /\ now = 0
    /\ saved = [p \in FsPaths |-> <<>>]
    /\ unhealed = {}
    /\ faults = 0

\* the files at start: the leftovers, and no snapshot yet
LeftoverFiles ==
    [p \in FsPaths |-> IF p \in Leftover THEN LeftoverContent(p) ELSE Absent]

Init ==
    /\ InitMonitors(Monitors)
    /\ fs = LeftoverFiles
    /\ api = NoRequest
    /\ resp = NoResponse
    /\ walk = NoWalk
    /\ scrape = NoScrape
    /\ heat = NoHeat

\* sorted(runnable_jobs): the due jobs in the order of their next_run, which
\* is any order
Orders(S) == {q \in [1..Cardinality(S) -> S] : \A i, j \in DOMAIN q : i # j => q[i] # q[j]}

\* _init_driver: the driver after it, by whether Chrome could be created
\* (a failure leaves self.driver as it was, the old driver having been quit)
init_driver(old, ok) == IF ok THEN "ok" ELSE IF old = "none" THEN "none" ELSE "broken"

\* Return as it would be if the job function returned schedule.CancelJob:
\* run_pending then takes the job off the scheduler's list
Return_CancelJob(t) ==
    LET m == call[t].mon IN
    IF pc[t] = "initial"
    THEN /\ jobs' = jobs \cup {t}
         /\ pc' = [pc EXCEPT ![t] = "loop"]
         /\ call' = [call EXCEPT ![t] = NoCall]
         /\ UNCHANGED <<due, todo>>
    ELSE /\ jobs' = jobs \ {m}
         /\ due' = due \ {m}
         /\ todo' = [todo EXCEPT ![t] = Tail(todo[t])]
         /\ IF Tail(todo[t]) = <<>>
            THEN /\ pc' = [pc EXCEPT ![t] = "loop"]
                 /\ call' = [call EXCEPT ![t] = NoCall]
            ELSE /\ pc' = pc
                 /\ call' = [call EXCEPT ![t] = Enter(Head(Tail(todo[t])))]

\* The thread's next position when the run_single_scrape it executes
\* returns: after the initial scrape the job is registered and the loop
\* entered (start_monitoring); inside run_pending the job's next_run is
\* moved forward and the next due job of this call is run.
Return(t) ==
    LET m == call[t].mon IN
    IF pc[t] = "initial"
    THEN /\ jobs' = jobs \cup {t}
         /\ pc' = [pc EXCEPT ![t] = "loop"]
         /\ call' = [call EXCEPT ![t] = NoCall]
         /\ UNCHANGED <<due, todo>>
    ELSE /\ due' = due \ {m}
         /\ todo' = [todo EXCEPT ![t] = Tail(todo[t])]
         /\ IF Tail(todo[t]) = <<>>
            THEN /\ pc' = [pc EXCEPT ![t] = "loop"]
                 /\ call' = [call EXCEPT ![t] = NoCall]
            ELSE /\ pc' = pc
                 /\ call' = [call EXCEPT ![t] = Enter(Head(Tail(todo[t])))]
         /\ UNCHANGED jobs

\* start_monitoring up to the initial scrape: _init_driver, and on failure
\* the thread returns
StartMonitoring(t) ==
    /\ pc[t] = "start"
    /\ \E ok \in BOOLEAN :
         /\ driver' = [driver EXCEPT ![t] = init_driver(driver[t], ok)]
         /\ IF ok
            THEN /\ pc' = [pc EXCEPT ![t] = "initial"]
                 /\ call' = [call EXCEPT ![t] = Enter(t)]
            ELSE /\ pc' = [pc EXCEPT ![t] = "exited"]
                 /\ call' = call
    /\ UNCHANGED <<jobs, due, todo, fs, last_data, now, api, resp, walk,
                   saved, faults, unhealed,
                   scrape, heat>>

\* time passes: the next_run of a job is reached
Tick(m) ==
    /\ m \in jobs \ due
    /\ due' = due \cup {m}
    /\ UNCHANGED <<pc, driver, jobs, todo, call, fs, last_data, now, api, resp,
                   walk, saved, faults, unhealed,
                   scrape, heat>>

\* the jobs a run_pending() of thread t collects
runnable_jobs(t) == due

\* schedule.run_pending() in the loop of start_monitoring: collects the due
\* jobs of the default scheduler and starts the first
RunPending(t) ==
    /\ pc[t] = "loop"
    /\ runnable_jobs(t) # {}
    /\ \E q \in Orders(runnable_jobs(t)) :
         /\ todo' = [todo EXCEPT ![t] = q]
         /\ call' = [call EXCEPT ![t] = Enter(q[1])]
    /\ pc' = [pc EXCEPT ![t] = "pending"]
    /\ UNCHANGED <<driver, jobs, due, fs, last_data, now, api, resp, walk,
                   saved, faults, unhealed,
                   scrape, heat>>

\* scrape_all_pages returns a result
ScrapeOk(t) ==
    /\ call[t].at = "scrape"
    /\ driver[call[t].mon] = "ok"
    /\ now < MaxScrapes
    /\ now' = now + 1
    /\ \E n \in {MaxRows} :
         call' = [call EXCEPT ![t] = [mon |-> call[t].mon, at |-> "save",
                                      data |-> Result(now + 1, Rows(n))]]
    /\ UNCHANGED <<pc, driver, jobs, due, todo, fs, last_data, api, resp, walk,
                   saved, faults, unhealed,
                   scrape, heat>>

\* ScrapeFail as it would be if run_single_scrape let the exception out:
\* it leaves run_pending and start_monitoring of the thread that runs the
\* job, which ends
ScrapeFail_Propagates(t) ==
    /\ call[t].at = "scrape"
    /\ pc' = [pc EXCEPT ![t] = "exited"]
    /\ call' = [call EXCEPT ![t] = NoCall]
    /\ todo' = [todo EXCEPT ![t] = <<>>]
    /\ UNCHANGED <<driver, jobs, due, fs, last_data, now, api, resp, walk,
                   saved, faults, unhealed,
                   scrape, heat>>

\* ScrapeFail as it would be if run_single_scrape went on to save and
\* store what scrape_all_pages returned, None included
ScrapeFail_StoresNone(t) ==
    /\ call[t].at = "scrape"
    /\ fs' = [fs EXCEPT ![LatestPath[call[t].mon]] = Truncated]
    /\ last_data' = [last_data EXCEPT ![call[t].mon] = None]
    /\ Return(t)
    /\ UNCHANGED <<driver, now, api, resp, walk, saved, faults, unhealed,
                   scrape, heat>>

\* scrape_all_pages returns None: the table does not load in time, or a
\* call on the driver raises because the browser session is dead (it died
\* since its last use, or was dead already) and is caught there;
\* run_single_scrape then returns None
ScrapeFail(t) ==
    /\ call[t].at = "scrape"
    /\ \E dead \in BOOLEAN :
         /\ driver[call[t].mon] = "broken" => dead
         /\ driver' = IF dead THEN [driver EXCEPT ![call[t].mon] = "broken"]
                      ELSE driver
         /\ unhealed' = IF dead THEN unhealed \cup {call[t].mon} ELSE unhealed
    /\ Return(t)
    /\ UNCHANGED <<fs, last_data, now, api, resp, walk, saved, faults,
                   scrape, heat>>

\* run_single_scrape: save_latest(data) up to open(filepath, 'w'), which
\* empties the file before anything is written
SaveOpen(t) ==
    /\ call[t].at = "save"
    /\ fs' = [fs EXCEPT ![LatestPath[call[t].mon]] = Truncated]
    /\ call' = [call EXCEPT ![t].at = "dump"]
    /\ UNCHANGED <<pc, driver, jobs, due, todo, last_data, now, api, resp, walk,
                   saved, faults, unhealed,
                   scrape, heat>>

\* run_single_scrape: the rest of save_latest(data): json.dump and the
\* close of the file
SaveLatest(t) ==
    /\ call[t].at = "dump"
    /\ \E outcome \in SaveOutcomes :
         /\ outcome # "ok" => faults < MaxFaults
         /\ faults' = IF outcome = "ok" THEN faults ELSE faults + 1
         /\ fs' = save_latest(fs, call[t].mon, call[t].data, outcome)
         /\ saved' = IF outcome = "ok"
                     THEN [saved EXCEPT ![LatestPath[call[t].mon]] =
                             Append(@, call[t].data.metadata.scrape_timestamp)]
                     ELSE saved
    /\ call' = [call EXCEPT ![t].at = "cleanup"]
    /\ UNCHANGED <<pc, driver, jobs, due, todo, last_data, now, api, resp, walk,
                   unhealed,
                   scrape, heat>>

\* run_single_scrape: cleanup_old_files(), self.last_data = data, return
\* data
Cleanup(t) ==
    /\ call[t].at = "cleanup"
    /\ fs' = cleanup_old_files(fs, call[t].mon)
    /\ last_data' = [last_data EXCEPT ![call[t].mon] = call[t].data]
    /\ Return(t)
    /\ UNCHANGED <<driver, now, api, resp, walk, saved, faults, unhealed,
                   scrape, heat>>

\* run_single_scrape: os.listdir raises in cleanup_old_files, whose try has
\* no handler; the except branch of run_single_scrape calls _init_driver
\* and returns None
CleanupRaises(t) ==
    /\ call[t].at = "cleanup"
    /\ faults < MaxFaults
    /\ faults' = faults + 1
    /\ \E ok \in BOOLEAN :
         /\ driver' = [driver EXCEPT ![call[t].mon] = init_driver(@, ok)]
         /\ unhealed' = unhealed \ {call[t].mon}
    /\ Return(t)
    /\ UNCHANGED <<fs, last_data, now, api, resp, walk, saved,
                   scrape, heat>>

\* cleanup(): the driver after it (self.driver.quit(), whatever it raises
\* swallowed; nothing to do when self.driver is None)
cleanup(d) == IF d = "none" THEN "none" ELSE "quit"

\* KeyboardInterrupt as it would act if the loop of start_monitoring had
\* no finally clause
KeyboardInterrupt_NoFinally(t) ==
    /\ pc[t] \in {"initial", "loop", "pending"}
    /\ pc' = [pc EXCEPT ![t] = IF pc[t] = "initial" THEN "aborted" ELSE "stopped"]
    /\ call' = [call EXCEPT ![t] = NoCall]
    /\ todo' = [todo EXCEPT ![t] = <<>>]
    /\ UNCHANGED <<driver, jobs, due, fs, last_data, now, api, resp, walk,
                   saved, faults, unhealed, scrape, heat>>

\* Ctrl+C in the main thread, which runs start_monitoring. In the loop
\* (between two run_pending or inside a job: run_single_scrape catches
\* Exception only) it is caught by the except clause and the finally
\* clause runs cleanup(); during the initial scrape, which precedes the
\* try, it leaves start_monitoring and main() with no cleanup.
KeyboardInterrupt(t) ==
    /\ pc[t] \in {"initial", "loop", "pending"}
    /\ IF pc[t] = "initial"
       THEN /\ pc' = [pc EXCEPT ![t] = "aborted"]
            /\ driver' = driver
       ELSE /\ pc' = [pc EXCEPT ![t] = "stopped"]
            /\ driver' = [driver EXCEPT ![t] = cleanup(@)]
    /\ call' = [call EXCEPT ![t] = NoCall]
    /\ todo' = [todo EXCEPT ![t] = <<>>]
    /\ UNCHANGED <<jobs, due, fs, last_data, now, api, resp, walk,
                   saved, faults, unhealed, scrape, heat>>

MonitorStep ==
    \/ \E t \in Monitors : StartMonitoring(t)
    \/ \E m \in Monitors : Tick(m)
    \/ \E t \in Monitors : RunPending(t)
    \/ \E t \in Monitors : ScrapeOk(t)
    \/ \E t \in Monitors : ScrapeFail(t)
    \/ \E t \in Monitors : SaveOpen(t)
    \/ \E t \in Monitors : SaveLatest(t)
    \/ \E t \in Monitors : Cleanup(t)
    \/ \E t \in Monitors : CleanupRaises(t)

---------------------------------------------------------------------------
(* The API (api.py).                                                       *)

\* a query parameter: absent, or its text as sent
NoArgument == [given |-> FALSE, text |-> <<>>]
Text(t) == [given |-> TRUE, text |-> t]

Digits == <<"0","1","2","3","4","5","6","7","8","9">>
is_digit(c) == \E i \in DOMAIN Digits : Digits[i] = c
digit_value(c) == (CHOOSE i \in DOMAIN Digits : Digits[i] = c) - 1

\* the value of a non-empty sequence of digits
RECURSIVE digits_value(_)
digits_value(s) ==
    IF Len(s) = 1 THEN digit_value(s[1])
    ELSE 10 * digits_value(SubSeq(s, 1, Len(s) - 1)) + digit_value(s[Len(s)])

\* the text after an optional sign
unsigned(s) == IF s # <<>> /\ Head(s) \in {"+", "-"} THEN Tail(s) ELSE s

\* int(text) does not raise ValueError: blanks around, an optional sign and
\* one digit or more
is_int(text) ==
    /\ unsigned(strip(text)) # <<>>
    /\ \A i \in DOMAIN unsigned(strip(text)) : is_digit(unsigned(strip(text))[i])

\* int(text)
int(text) ==
    IF Head(strip(text)) = "-" THEN 0 - digits_value(unsigned(strip(text)))
    ELSE digits_value(unsigned(strip(text)))

\* str(n) for an integer n
RECURSIVE str_nat(_)
str_nat(n) ==
    IF n < 10 THEN <<Digits[n + 1]>>
    ELSE str_nat(n \div 10) \o <<Digits[(n % 10) + 1]>>
str(n) == IF n < 0 THEN <<"-">> \o str_nat(0 - n) ELSE str_nat(n)

\* an integer parameter as a client writes it
Arg(v) == Text(str(v))

\* request.args.get(name, default, type=int): the default when the
\* parameter is absent or int() raises ValueError
args_get(arg, default) ==
    IF arg.given /\ is_int(arg.text) THEN int(arg.text) ELSE default

DefaultPage == 1
DefaultPerPage == 50
MaxPerPage == 1000

Min(a, b) == IF a <= b THEN a ELSE b
Max(a, b) == IF a >= b THEN a ELSE b

\* Python's a // b for b # 0 (the floor of the quotient)
floordiv(a, b) == IF b > 0 THEN a \div b ELSE (-a) \div (-b)

\* Python's seq[start:end]: a negative index counts from the end, and both
\* are clamped to the sequence
slice(seq, start, end) ==
    LET n  == Len(seq)
        lo == IF start < 0 THEN Max(start + n, 0) ELSE Min(start, n)
        hi == IF end < 0 THEN Max(end + n, 0) ELSE Min(end, n)
    IN  IF lo < hi THEN SubSeq(seq, lo + 1, hi) ELSE <<>>

\* load_json_file as it would be with a cache filled at the first snapshot
\* written to the file: the content is read, but of the first snapshot
load_json_file_cached(files, filepath) ==
    IF filepath \notin FsPaths THEN None
    ELSE IF files[filepath].kind # "json" THEN None
    ELSE IF saved[filepath] = <<>> THEN files[filepath]
    ELSE Result(saved[filepath][1], files[filepath].data)

\* load_json_file: None when the file does not exist or json.load raises
load_json_file(files, filepath) ==
    IF filepath \notin FsPaths THEN None
    ELSE IF files[filepath].kind = "json" THEN files[filepath] ELSE None

\* paginate_data with the slice taken one page too far (start at
\* page * per_page)
paginate_data_shifted(data, page, per_page) ==
    IF data = <<>> THEN [data |-> <<>>, total |-> 0, total_pages |-> 0]
    ELSE [data |-> slice(data, page * per_page, page * per_page + per_page),
          total |-> Len(data),
          total_pages |-> floordiv(Len(data) + per_page - 1, per_page)]

\* paginate_data, for per_page # 0 or empty data: (slice, total, total_pages)
paginate_data(data, page, per_page) ==
    IF data = <<>> THEN [data |-> <<>>, total |-> 0, total_pages |-> 0]
    ELSE [data |-> slice(data, (page - 1) * per_page, (page - 1) * per_page + per_page),
          total |-> Len(data),
          total_pages |-> floordiv(Len(data) + per_page - 1, per_page)]

\* paginate_data raises ZeroDivisionError
paginate_raises(data, per_page) == data # <<>> /\ per_page = 0

\* dict.get(key, default)
get(d, key, default) == IF key \in DOMAIN d THEN d[key] ELSE default

\* create_response, with the 200 of jsonify
create_response(data, metadata, page, per_page, total, total_pages) ==
    [status |-> 200,
     success |-> TRUE,
     metadata |-> [scrape_timestamp |-> get(metadata, "scrape_timestamp", None),
                   total_records |-> get(metadata, "total_records", None),
                   total_pages_scraped |-> get(metadata, "total_pages", None),
                   source_url |-> get(metadata, "source_url", None),
                   market_type |-> get(metadata, "market_type", "N/A")],
     pagination |-> [page |-> page, per_page |-> per_page,
                     total_records |-> total, total_pages |-> total_pages,
                     has_next |-> page < total_pages, has_prev |-> page > 1],
     data |-> data]

\* error_response(message), code 404
error_response == [status |-> 404, success |-> FALSE]

\* Flask's answer to an exception in a view (errorhandler(500))
internal_error == [status |-> 500, success |-> FALSE]

Endpoints == {"/event-calendar", "/announcements", "/crd", "/credit-rating"}

\* market parameters clients send
Markets == {s_equity, s_sme, s_SME}

\* the snapshot file a view reads (market is the parameter as sent)
filepath(endpoint, market) ==
    CASE endpoint = "/event-calendar" -> join("event_calendar_data", n_latest_json)
      [] endpoint = "/announcements"  -> join("announcements_data", latest_market_json(market))
      [] endpoint = "/crd"            -> join("crd_data", n_latest_json)
      [] OTHER                        -> join("credit_rating_data", latest_market_json(market))

\* filepath, tabulated
FilePath == [endpoint \in Endpoints, market \in Markets |-> filepath(endpoint, market)]
filepath_of(endpoint, market) == FilePath[endpoint, market]

\* get_event_calendar, get_announcements, get_crd, get_credit_rating: the
\* four views have the same body but for the file they read
view(files, endpoint, market, page_arg, per_page_arg) ==
    LET page      == args_get(page_arg, DefaultPage)
        per_page  == Min(args_get(per_page_arg, DefaultPerPage), MaxPerPage)
        json_data == load_json_file(files, filepath_of(endpoint, market))
    IN  IF json_data = None THEN error_response
        ELSE IF paginate_raises(json_data.data, per_page) THEN internal_error
        ELSE LET pg == paginate_data(json_data.data, page, per_page)
             IN  create_response(pg.data, json_data.metadata, page, per_page,
                                 pg.total, pg.total_pages)

\* a request arrives; floor is history: how many snapshots save_latest had
\* written to the request's file by then
ApiBegin(endpoint, market, page_arg, per_page_arg) ==
    /\ api.state = "idle"
    /\ api' = [state |-> "began", endpoint |-> endpoint, market |-> market,
               page |-> page_arg, per_page |-> per_page_arg,
               floor |-> IF filepath_of(endpoint, market) \in FsPaths
                         THEN Len(saved[filepath_of(endpoint, market)]) ELSE 0]
    /\ resp' = NoResponse
    /\ UNCHANGED <<pc, driver, jobs, due, todo, call, fs, last_data, now,
                   saved, faults, unhealed,
                   scrape, heat>>

\* the view runs: it reads the file and answers
ApiServe ==
    /\ api.state = "began"
    /\ resp' = view(fs, api.endpoint, api.market, api.page, api.per_page)
    /\ api' = [api EXCEPT !.state = "served"]
    /\ UNCHANGED <<pc, driver, jobs, due, todo, call, fs, last_data, now, walk,
                   saved, faults, unhealed,
                   scrape, heat>>

\* the snapshot files health() looks for, by the key it reports them under
HealthFiles ==
    [event_calendar       |-> join("event_calendar_data", n_latest_json),
     announcements_equity |-> join("announcements_data", latest_market_json(s_equity)),
     crd                  |-> join("crd_data", n_latest_json),
     credit_rating_equity |-> join("credit_rating_data", latest_market_json(s_equity))]

\* os.path.exists(filepath)
exists(files, path) == path \in FsPaths /\ files[path] # Absent

\* health as it would be if one file sufficed for 'healthy' (any for all)
health_any(files) ==
    LET found == [k \in DOMAIN HealthFiles |-> exists(files, HealthFiles[k])]
        ready_count == Cardinality({k \in DOMAIN found : found[k]})
    IN  [status |-> 200,
         body |-> [status |-> IF \E k \in DOMAIN found : found[k] THEN "healthy"
                              ELSE IF ready_count > 0 THEN "starting"
                              ELSE "initializing",
                   monitors |-> found,
                   ready |-> str(ready_count) \o <<"/", "4">>]]

\* health: the response (its timestamp left out)
health(files) ==
    LET found == [k \in DOMAIN HealthFiles |-> exists(files, HealthFiles[k])]
        ready_count == Cardinality({k \in DOMAIN found : found[k]})
    IN  [status |-> 200,
         body |-> [status |-> IF \A k \in DOMAIN found : found[k] THEN "healthy"
                              ELSE IF ready_count > 0 THEN "starting"
                              ELSE "initializing",
                   monitors |-> found,
                   ready |-> str(ready_count) \o <<"/", "4">>]]

\* a request to /health is answered
ApiHealth ==
    /\ api.state = "idle"
    /\ walk.state = "idle"
    /\ api' = [NoRequest EXCEPT !.state = "health", !.endpoint = "/health"]
    /\ resp' = health(fs)
    /\ UNCHANGED <<pc, driver, jobs, due, todo, call, fs, last_data, now, walk,
                   saved, faults, unhealed, scrape, heat>>

\* the response has been sent
ApiDone ==
    /\ api.state \in {"served", "health"}
    /\ walk.state = "idle"
    /\ api' = NoRequest
    /\ resp' = NoResponse
    /\ UNCHANGED <<pc, driver, jobs, due, todo, call, fs, last_data, now, walk,
                   saved, faults, unhealed,
                   scrape, heat>>

\* whether the view of an endpoint reads the market parameter
takes_market(endpoint) == endpoint \in {"/announcements", "/credit-rating"}

\* the requests clients send to an endpoint with the given page and
\* per_page (an endpoint without a market parameter is sent none: the
\* default stands for it)
Requests(endpoints, markets, pages, per_pages) ==
    {[endpoint |-> e, market |-> k, page |-> p, per_page |-> pp] :
        e \in endpoints, k \in markets, p \in pages, pp \in per_pages}
    \ {r \in [endpoint : endpoints, market : markets, page : pages,
              per_page : per_pages] :
        ~ takes_market(r.endpoint) /\ r.market # s_equity}

\* requests for the first page of a snapshot a monitor of start_all.py
\* writes, or of the SME announcements
FirstPageRequests ==
    Requests({"/announcements", "/crd"}, {s_equity, s_sme}, {NoArgument}, {NoArgument})

\* a client of the running system sends one
ApiRequest ==
    /\ walk.state = "idle"
    /\ \E r \in FirstPageRequests :
         ApiBegin(r.endpoint, r.market, r.page, r.per_page)
    /\ UNCHANGED walk

\* page and per_page parameters clients send (None: not sent)
PageArgs ==
    {NoArgument, Text(<<"a","b","c">>)} \cup {Arg(v) : v \in 0..(MaxRows + 1)}
PerPageArgs ==
    {NoArgument, Text(<<>>), Text(<<"1",".","5">>)}
    \cup {Arg(v) : v \in {-1, MaxPerPage, MaxPerPage + 1}}
    \cup {Arg(v) : v \in 0..MaxRows}

AnyRequests == Requests(Endpoints, Markets, PageArgs, PerPageArgs)

\* any request to the four endpoints
ApiRequestAny ==
    /\ walk.state = "idle"
    /\ \E r \in AnyRequests :
         ApiBegin(r.endpoint, r.market, r.page, r.per_page)
    /\ UNCHANGED walk

---------------------------------------------------------------------------
(* A client that reads a whole snapshot page by page: page 1, then each    *)
(* next page up to the total_pages the first response reports.             *)

WalkPerPages == (1..(MaxRows + 1)) \cup {MaxPerPage}

WalkRequests ==
    Requests(Endpoints, {s_equity, s_sme}, {Arg(1)}, {Arg(v) : v \in WalkPerPages})

\* the client asks for page 1
WalkStart ==
    /\ walk.state = "idle"
    /\ api.state = "idle"
    /\ \E r \in WalkRequests :
         ApiBegin(r.endpoint, r.market, r.page, r.per_page)
    /\ walk' = [state |-> "asked", acc |-> <<>>, nonempty |-> TRUE]

\* the client takes the response: it appends the page's records and asks
\* for the next page, or stops after the last page (or an error)
WalkCollect ==
    /\ walk.state = "asked"
    /\ api.state = "served"
    /\ IF ~ resp.success
       THEN /\ walk' = NoWalk
            /\ api' = NoRequest
            /\ resp' = NoResponse
       ELSE LET acc == walk.acc \o resp.data
                ne  == walk.nonempty /\ (resp.pagination.total_pages >= 1 => resp.data # <<>>)
            IN  IF resp.pagination.page < resp.pagination.total_pages
                THEN /\ walk' = [state |-> "asked", acc |-> acc, nonempty |-> ne]
                     /\ api' = [api EXCEPT !.state = "began",
                                           !.page = Arg(resp.pagination.page + 1)]
                     /\ resp' = NoResponse
                ELSE /\ walk' = [state |-> "done", acc |-> acc, nonempty |-> ne]
                     /\ UNCHANGED <<api, resp>>
    /\ UNCHANGED <<pc, driver, jobs, due, todo, call, fs, last_data, now,
                   saved, faults, unhealed,
                   scrape, heat>>

\* the client is done with what it read
WalkReset ==
    /\ walk.state = "done"
    /\ walk' = NoWalk
    /\ api' = NoRequest
    /\ resp' = NoResponse
    /\ UNCHANGED <<pc, driver, jobs, due, todo, call, fs, last_data, now,
                   saved, faults, unhealed,
                   scrape, heat>>

---------------------------------------------------------------------------
(* scrape_all_pages, step by step: the headers, the page loop, the         *)
(* conversion of the rows to records and the result.  A page of the site   *)
(* is the list of its <tr> elements, a <tr> the list of its <td> cells, a  *)
(* cell its text and the href of its first <a> (NoAnchor when it has       *)
(* none).  Texts are sequences of characters.                              *)

\* pages of a scrape that may hold rows; the pages after them are empty
MaxContentPages == 2

\* Python dict values: a str, and the dicts the monitors build
py_str(t) == [str |-> t]

\* sub in s
contains(s, sub) ==
    \E i \in 0..(Len(s) - Len(sub)) : SubSeq(s, i + 1, i + Len(sub)) = sub

s_pdf  == <<".","p","d","f">>
s_xbrl == <<"x","b","r","l">>

\* cell.find_element(By.TAG_NAME, "a") raises NoSuchElementException
NoAnchor == [anchor |-> FALSE, href |-> <<>>]
Anchor(href) == [anchor |-> TRUE, href |-> href]
Cell(text, a) == [text |-> text, a |-> a]

\* _extract_table_data, one cell: the value appended to row_data
cell_value(m, cell) ==
    LET text == strip(cell.text)
        href == cell.a.href
    IN  IF ~ cell.a.anchor \/ href = <<>> THEN py_str(text)
        ELSE IF m = "CRD" THEN [text |-> text, link |-> href]
        ELSE IF contains(lower(href), s_pdf)
             THEN [text |-> text, link |-> href, type |-> "pdf"]
        ELSE IF contains(lower(href), s_xbrl)
             THEN [text |-> text, link |-> href, type |-> "xbrl"]
        ELSE [text |-> text, link |-> href, type |-> "link"]

\* _extract_table_data, one row: row_data
row_data(m, tr) == [i \in 1..Len(tr) |-> cell_value(m, tr[i])]

\* _extract_table_data: the rows of the page that have cells, in order
RECURSIVE extract_table_data(_, _)
extract_table_data(m, trs) ==
    IF trs = <<>> THEN <<>>
    ELSE (IF Head(trs) # <<>> THEN <<row_data(m, Head(trs))>> ELSE <<>>)
         \o extract_table_data(m, Tail(trs))

\* _extract_table_headers: the stripped texts of the <th>, the empty ones
\* left out
RECURSIVE extract_table_headers(_)
extract_table_headers(ths) ==
    IF ths = <<>> THEN <<>>
    ELSE (IF strip(Head(ths)) # <<>> THEN <<strip(Head(ths))>> ELSE <<>>)
         \o extract_table_headers(Tail(ths))

\* the generic column names used when no header is found
AnnouncementsHeaders ==
    <<<<"S","Y","M","B","O","L">>,
      <<"C","O","M","P","A","N","Y"," ","N","A","M","E">>,
      <<"S","U","B","J","E","C","T">>,
      <<"D","E","T","A","I","L","S">>,
      <<"A","T","T","A","C","H","M","E","N","T">>,
      <<"X","B","R","L">>,
      <<"B","R","O","A","D","C","A","S","T"," ","D","A","T","E","/","T","I","M","E">>>>

CRDHeaders ==
    <<<<"C","O","M","P","A","N","Y"," ","N","A","M","E">>,
      <<"I","S","I","N">>,
      <<"N","A","M","E"," ","O","F"," ","C","R","E","D","I","T"," ","R","A","T","I","N","G"," ","A","G","E","N","C","Y">>,
      <<"C","R","E","D","I","T"," ","R","A","T","I","N","G">>,
      <<"R","A","T","I","N","G"," ","A","C","T","I","O","N">>,
      <<"D","A","T","E"," ","O","F"," ","C","R","E","D","I","T"," ","R","A","T","I","N","G">>,
      <<"R","E","P","O","R","T","I","N","G"," ","D","A","T","E">>,
      <<"B","R","O","A","D","C","A","S","T"," ","D","A","T","E","/","T","I","M","E">>>>

default_headers(m) == IF m = "Announcements" THEN AnnouncementsHeaders ELSE CRDHeaders

\* the headers scrape_all_pages uses
headers_of(m, ths) ==
    IF extract_table_headers(ths) = <<>> THEN default_headers(m)
    ELSE extract_table_headers(ths)

\* the safety limit of the page loop
AnnouncementsPageLimit == 100
CRDPageLimit == 50
page_limit(m) == IF m = "Announcements" THEN AnnouncementsPageLimit ELSE CRDPageLimit

\* self.url
url(m) ==
    IF m = "Announcements"
    THEN "https://www.nseindia.com/companies-listing/corporate-filings-announcements"
    ELSE "https://www.nseindia.com/companies-listing/debt-centralised-database/crd"

\* a Python dict as the list of its (key, value) items in insertion order;
\* d[k] = v replaces the value of a key that is present and appends a new
\* key
dict_set(d, k, v) ==
    IF \E j \in DOMAIN d : d[j][1] = k
    THEN [j \in DOMAIN d |-> IF d[j][1] = k THEN <<k, v>> ELSE d[j]]
    ELSE Append(d, <<k, v>>)

\* row_dict after the assignments row_dict[headers[i]] = row[i] for
\* i = 1..n, in that order
RECURSIVE row_dict(_, _, _)
row_dict(headers, row, n) ==
    IF n = 0 THEN <<>>
    ELSE dict_set(row_dict(headers, row, n - 1), headers[n], row[n])

\* scrape_all_pages: the record of a row: one item per header when the row
\* has at least as many cells, one item per cell otherwise
row_to_record(headers, row) ==
    IF Len(row) >= Len(headers) THEN row_dict(headers, row, Len(headers))
    ELSE row_dict(headers, row, Len(row))

\* structure as it would be if a row with fewer cells than headers were
\* left out
RECURSIVE structure_strict(_, _)
structure_strict(headers, all_data) ==
    IF all_data = <<>> THEN <<>>
    ELSE (IF Len(Head(all_data)) >= Len(headers)
          THEN <<row_to_record(headers, Head(all_data))>> ELSE <<>>)
         \o structure_strict(headers, Tail(all_data))

\* scrape_all_pages: structured_data, one record per row of all_data
RECURSIVE structure(_, _)
structure(headers, all_data) ==
    IF all_data = <<>> THEN <<>>
    ELSE <<row_to_record(headers, Head(all_data))>>
         \o structure(headers, Tail(all_data))

\* scrape_all_pages: result
result(m, ts, headers, structured_data, page) ==
    [kind |-> "json",
     metadata |->
        IF m = "Announcements"
        THEN [scrape_timestamp |-> ts, total_records |-> Len(structured_data),
              total_pages |-> page, market_type |-> market_type(m),
              source_url |-> url(m), headers |-> headers]
        ELSE [scrape_timestamp |-> ts, total_records |-> Len(structured_data),
              total_pages |-> page, source_url |-> url(m), headers |-> headers],
     data |-> structured_data]

\* the <th> texts a page may show: none, two, two with blanks around one, a
\* text shown twice, and an empty <th> between two others
HeaderSamples ==
    {<<>>,
     << <<"A">>, <<" ","B"," ">> >>,
     << <<"A">>, <<"A">> >>,
     << <<"A">>, <<>>, <<"B">> >>}

\* the <tbody> a page may show, of these <tr>: two plain cells; a cell with
\* a link and a cell with a link to a PDF; three cells, with a link to XBRL
\* and an <a> without href; one cell; no <td> at all
PageSamples ==
    LET
        tr_plain == <<Cell(<<"x">>, NoAnchor), Cell(<<" ","y">>, NoAnchor)>>
        tr_links == <<Cell(<<"s">>, Anchor(<<"l">>)), Cell(<<"d">>, Anchor(<<"a",".","P","D","F">>))>>
        tr_long  == <<Cell(<<"x">>, NoAnchor), Cell(<<"y">>, Anchor(s_xbrl)),
                      Cell(<<"z">>, Anchor(<<>>))>>
        tr_short == <<Cell(<<"x">>, NoAnchor)>>
        tr_empty == <<>>
    IN
    {<<>>, <<tr_plain, tr_empty>>, <<tr_links>>, <<tr_long, tr_short>>,
     <<tr_plain, tr_plain>>}

\* max_pages as given to scrape_all_pages (0: None)
MaxPagesArgs == {0, 1, 2}

\* scrape_all_pages up to the page loop: the page is loaded, the table is
\* there, the headers are read, page = 1
ScrapeBegin ==
    /\ scrape.state = "idle"
    /\ \E m \in Monitors, max_pages \in MaxPagesArgs, ths \in HeaderSamples :
         scrape' = [NoScrape EXCEPT !.state = "loop", !.m = m,
                                    !.max_pages = max_pages,
                                    !.headers = headers_of(m, ths),
                                    !.page = 1]
    /\ UNCHANGED <<pc, driver, jobs, due, todo, call, fs, last_data, now, api,
                   resp, walk, saved, faults, unhealed, heat>>

\* the page loop: max_pages is given and page is beyond it
MaxPagesReached ==
    /\ scrape.state = "loop"
    /\ scrape.max_pages # 0 /\ scrape.page > scrape.max_pages
    /\ scrape' = [scrape EXCEPT !.state = "convert", !.outcome = "max_pages"]
    /\ UNCHANGED <<pc, driver, jobs, due, todo, call, fs, last_data, now, api,
                   resp, walk, saved, faults, unhealed, heat>>

\* the page loop: _extract_table_data() of the page shown, all_data.extend
\* (cells, calls and rows are history: the <tr> with cells that were shown,
\* the calls of _extract_table_data and the rows they returned)
ExtractPage ==
    /\ scrape.state = "loop"
    /\ ~ (scrape.max_pages # 0 /\ scrape.page > scrape.max_pages)
    /\ \E trs \in PageSamples :
         /\ scrape.calls >= MaxContentPages => trs = <<>>
         /\ scrape' = [scrape EXCEPT
                         !.state = "extracted",
                         !.all_data = @ \o extract_table_data(scrape.m, trs),
                         !.cells = @ \o SelectSeq(trs, LAMBDA tr : tr # <<>>),
                         !.calls = @ + 1,
                         !.rows = @ + Len(extract_table_data(scrape.m, trs))]
    /\ UNCHANGED <<pc, driver, jobs, due, todo, call, fs, last_data, now, api,
                   resp, walk, saved, faults, unhealed, heat>>

\* the page loop: _has_next_page() is false
NoNextPage ==
    /\ scrape.state = "extracted"
    /\ scrape' = [scrape EXCEPT !.state = "convert", !.outcome = "no_next"]
    /\ UNCHANGED <<pc, driver, jobs, due, todo, call, fs, last_data, now, api,
                   resp, walk, saved, faults, unhealed, heat>>

\* the page loop: _click_next_page() is false
ClickFails ==
    /\ scrape.state = "extracted"
    /\ scrape' = [scrape EXCEPT !.state = "convert", !.outcome = "click_failed"]
    /\ UNCHANGED <<pc, driver, jobs, due, todo, call, fs, last_data, now, api,
                   resp, walk, saved, faults, unhealed, heat>>

\* NextPage as it would be without the safety limit
NextPage_NoLimit ==
    /\ scrape.state = "extracted"
    /\ scrape' = [scrape EXCEPT !.page = @ + 1, !.state = "loop"]
    /\ UNCHANGED <<pc, driver, jobs, due, todo, call, fs, last_data, now, api,
                   resp, walk, saved, faults, unhealed, heat>>

\* the page loop: the next page is shown, page += 1, and the safety limit
NextPage ==
    /\ scrape.state = "extracted"
    /\ scrape' = IF scrape.page + 1 > page_limit(scrape.m)
                 THEN [scrape EXCEPT !.page = @ + 1, !.state = "convert",
                                     !.outcome = "limit"]
                 ELSE [scrape EXCEPT !.page = @ + 1, !.state = "loop"]
    /\ UNCHANGED <<pc, driver, jobs, due, todo, call, fs, last_data, now, api,
                   resp, walk, saved, faults, unhealed, heat>>

\* scrape_all_pages after the loop: structured_data and the result
Convert ==
    /\ scrape.state = "convert"
    /\ now' = now + 1
    /\ scrape' = [scrape EXCEPT
                    !.state = "done",
                    !.result = result(scrape.m, now + 1, scrape.headers,
                                      structure(scrape.headers, scrape.all_data),
                                      scrape.page)]
    /\ UNCHANGED <<pc, driver, jobs, due, todo, call, fs, last_data, api,
                   resp, walk, saved, faults, unhealed, heat>>

---------------------------------------------------------------------------
(* heatmap_api.py: the routes /indices and /heatmap of the heatmap API,    *)
(* served by one thread per request (threaded=True), and the one           *)
(* HeatmapService they share.  Texts of the page are sequences of          *)
(* characters; query arguments and colours are strings.                   *)

\* self.categories
categories ==
    [k \in {"broad-market", "sectoral", "thematic", "strategy"} |->
        CASE k = "broad-market" -> "Broad Market Indices"
          [] k = "sectoral"     -> "Sectoral Indices"
          [] k = "thematic"     -> "Thematic Indices"
          [] k = "strategy"     -> "Strategy Indices"]

UpperChar(c) ==
    IF \E i \in DOMAIN LowerChars : LowerChars[i] = c
    THEN UpperChars[CHOOSE i \in DOMAIN LowerChars : LowerChars[i] = c]
    ELSE c

upper(s) == [i \in 1..Len(s) |-> UpperChar(s[i])]

is_alpha(c) ==
    \E i \in DOMAIN UpperChars : UpperChars[i] = c \/ LowerChars[i] = c

\* str.isalnum(), str.isdigit(), any(c.isalpha() ...), any(c.isdigit() ...)
isalnum(s) == s # <<>> /\ \A i \in DOMAIN s : is_alpha(s[i]) \/ is_digit(s[i])
isdigit(s) == s # <<>> /\ \A i \in DOMAIN s : is_digit(s[i])
any_alpha(s) == \E i \in DOMAIN s : is_alpha(s[i])
any_digit(s) == \E i \in DOMAIN s : is_digit(s[i])

\* s.replace(c, '')
replace(s, c) == SelectSeq(s, LAMBDA x : x # c)

\* the pieces of s between the characters of seps, the empty ones included
RECURSIVE split_on(_, _, _)
split_on(s, seps, piece) ==
    IF s = <<>> THEN <<piece>>
    ELSE IF Head(s) \in seps
         THEN <<piece>> \o split_on(Tail(s), seps, <<>>)
         ELSE split_on(Tail(s), seps, Append(piece, Head(s)))

\* s.split()
split(s) == SelectSeq(split_on(s, Whitespace, <<>>), LAMBDA w : w # <<>>)

\* [l.strip() for l in text.split('\n') if l.strip()]
lines_of(text) ==
    LET pieces == split_on(text, {"\n"}, <<>>)
    IN  SelectSeq([i \in 1..Len(pieces) |-> strip(pieces[i])],
                  LAMBDA l : l # <<>>)

\* an element of the page and its text; reading a stale element raises
Element(text) == [ok |-> TRUE, text |-> text]
Stale == [ok |-> FALSE, text |-> <<>>]

\* get_indices: what one card adds to indices
index_of(card) ==
    LET card_text == strip(card.text)
        lines == lines_of(card_text)
    IN  IF card.ok /\ card_text # <<>> /\ contains(upper(card_text), <<"N","I","F","T","Y">>)
           /\ lines # <<>> /\ Len(lines[1]) < 50
        THEN <<[name |-> lines[1],
                value |-> IF Len(lines) > 1 THEN lines[2] ELSE <<>>,
                change |-> IF Len(lines) > 2 THEN lines[3] ELSE <<>>]>>
        ELSE <<>>

\* get_indices: indices after the loop over the cards
RECURSIVE indices_of(_)
indices_of(cards) ==
    IF cards = <<>> THEN <<>>
    ELSE index_of(Head(cards)) \o indices_of(Tail(cards))

\* get_indices: the entries whose name is not in seen, each name once
RECURSIVE unique_from(_, _)
unique_from(indices, seen) ==
    IF indices = <<>> THEN <<>>
    ELSE IF Head(indices).name \in seen
         THEN unique_from(Tail(indices), seen)
         ELSE <<Head(indices)>>
              \o unique_from(Tail(indices), seen \cup {Head(indices).name})

\* unique as it would be if no duplicate were removed
unique_keep_all(indices) == indices

\* get_indices: unique
unique(indices) == unique_from(indices, {})

\* get_indices, from the cards found to the value returned: Method 1 over
\* the links, Method 2 over the clickable parents when Method 1 found
\* nothing
get_indices(page) ==
    LET method1 == indices_of(page.cards)
        indices == IF Len(method1) = 0 THEN indices_of(page.nifty_elements)
                   ELSE method1
    IN  [kind |-> "list", value |-> unique(indices)]

\* background colours: value_of_css_property('background-color') gives one
\* of these or raises
Transparent == "rgba(0, 0, 0, 0)"
Raises == "raises"

\* a tile: is_displayed(), text, its own colour and those of its ancestors,
\* nearest first
Tile(displayed, text, bg, parents) ==
    [displayed |-> displayed, text |-> text, bg |-> bg, parents |-> parents]

\* the symbol test of Method 1
valid_symbol(symbol) ==
    LET symbol_clean == replace(replace(replace(replace(symbol, " "), "&"), "-"), ".")
    IN  /\ Len(symbol) >= 2 /\ Len(symbol) <= 20
        /\ isalnum(symbol_clean)
        /\ any_alpha(symbol)
        /\ ~ isdigit(replace(replace(symbol, "."), ","))

price_parts(line) == split(replace(line, ","))

price_of(lines) ==
    IF price_parts(lines[2]) # <<>> THEN price_parts(lines[2])[1] ELSE lines[2]

change_of(lines) ==
    IF Len(price_parts(lines[2])) > 1 THEN price_parts(lines[2])[2]
    ELSE IF Len(lines) > 2 THEN lines[3] ELSE <<>>

\* Methods 1a and 2: bg_color, 'unknown' when reading a colour raises
bg_color_or_unknown(tile) ==
    IF tile.bg = Raises THEN "unknown"
    ELSE IF tile.bg = Transparent
         THEN IF tile.parents = <<>> \/ tile.parents[1] = Raises THEN "unknown"
              ELSE tile.parents[1]
    ELSE tile.bg

\* Method 1a, one tile: stocks and seen_symbols after it
method_1a(acc, tile) ==
    LET lines == lines_of(strip(tile.text))
    IN  IF /\ tile.displayed
           /\ Len(lines) >= 2
           /\ valid_symbol(lines[1])
           /\ lines[1] \notin acc.seen_symbols
           /\ any_digit(lines[2])
        THEN [acc EXCEPT
                !.seen_symbols = @ \cup {lines[1]},
                !.stocks = Append(@, [symbol |-> lines[1],
                                      price |-> price_of(lines),
                                      change |-> change_of(lines),
                                      color |-> bg_color_or_unknown(tile),
                                      trend |-> "unknown"])]
        ELSE acc

skip_texts ==
    {<<"s","c","a","n">>, <<"d","o","w","n","l","o","a","d">>, <<"l","o","g","i","n">>, <<"n","s","e">>, <<"n","c","f","m">>, <<"b","a","c","k">>,
     <<"s","t","r","e","a","m","i","n","g">>, <<"a","s"," ","o","n">>, <<"n","o","t","e">>, <<"h","e","a","t","m","a","p">>, <<"i","n","d","i","c","e","s">>,
     <<"n","i","f","t","y">>, <<"b","r","o","a","d"," ","m","a","r","k","e","t">>, <<"s","e","c","t","o","r","a","l">>, <<"t","h","e","m","a","t","i","c">>, <<"s","t","r","a","t","e","g","y">>}

\* any(skip in text.lower() for skip in skip_texts)
skips(text) == \E skip \in skip_texts : contains(lower(text), skip)

\* Method 1b: the colour the loop over three ancestors leaves in bg_color:
\* the first that is not transparent, else the last one read, else none
RECURSIVE parent_color(_, _)
parent_color(parents, last) ==
    IF parents = <<>> THEN last
    ELSE IF Head(parents) = Raises THEN parent_color(Tail(parents), last)
    ELSE IF Head(parents) # Transparent THEN Head(parents)
    ELSE parent_color(Tail(parents), Head(parents))

\* Method 1b: bg_color, Raises when the tile's own colour is needed and
\* reading it raises
bg_color_1b(tile) ==
    LET p == parent_color(SubSeq(tile.parents, 1, Min(3, Len(tile.parents))), "unbound")
    IN  IF p = "unbound" \/ p = Transparent THEN tile.bg ELSE p

\* the red and green parts of a colour
rgb_parts(bg) ==
    CASE bg = "rgb(0, 128, 0)" -> <<0, 128>>
      [] bg = "rgb(200, 0, 0)" -> <<200, 0>>
      [] bg = "rgb(128, 128, 128)" -> <<128, 128>>
      [] OTHER -> <<0, 0>>

\* Method 1b: trend
trend_of(bg) ==
    LET r == rgb_parts(bg)[1]
        g == rgb_parts(bg)[2]
    IN  IF g > r + 20 THEN "gain" ELSE IF r > g + 20 THEN "loss" ELSE "neutral"

\* Method 1b, one tile: stocks, seen_symbols and whether skip_texts is
\* bound after it; a tile whose colour cannot be read is in seen_symbols
\* and not in stocks
method_1b(acc, tile) ==
    LET text == strip(tile.text)
        lines == lines_of(text)
    IN  IF ~ tile.displayed \/ text = <<>> \/ Len(text) < 3 THEN acc
        ELSE IF skips(text) THEN [acc EXCEPT !.skip_bound = TRUE]
        ELSE IF /\ Len(lines) >= 2
                /\ valid_symbol(lines[1])
                /\ any_digit(lines[2])
                /\ lines[1] \notin acc.seen_symbols
             THEN IF bg_color_1b(tile) = Raises
                  THEN [acc EXCEPT !.skip_bound = TRUE,
                                   !.seen_symbols = @ \cup {lines[1]}]
                  ELSE [acc EXCEPT
                          !.skip_bound = TRUE,
                          !.seen_symbols = @ \cup {lines[1]},
                          !.stocks = Append(@, [symbol |-> lines[1],
                                                price |-> price_of(lines),
                                                change |-> change_of(lines),
                                                color |-> bg_color_1b(tile),
                                                trend |-> trend_of(bg_color_1b(tile))])]
        ELSE [acc EXCEPT !.skip_bound = TRUE]

\* Method 2, one element; the test of skip_texts raises NameError when
\* Method 1b never bound it, and the element is passed over
method_2(acc, elem) ==
    LET text == strip(elem.text)
        lines == lines_of(text)
    IN  IF /\ elem.displayed
           /\ text # <<>> /\ Len(text) >= 3
           /\ Len(lines) >= 2
           /\ Len(lines[1]) >= 2 /\ Len(lines[1]) <= 25
           /\ any_alpha(lines[1])
           /\ lines[1] \notin acc.seen_symbols
           /\ acc.skip_bound
           /\ ~ skips(lines[1])
           /\ any_digit(lines[2])
        THEN [acc EXCEPT
                !.seen_symbols = @ \cup {lines[1]},
                !.stocks = Append(@, [symbol |-> lines[1],
                                      price |-> price_of(lines),
                                      change |-> change_of(lines),
                                      color |-> bg_color_or_unknown(elem),
                                      trend |-> "unknown"])]
        ELSE acc

\* a loop of one of the methods over the elements found
\* Method 1a: the tiles of the containers, container after container
RECURSIVE tiles_of(_)
tiles_of(heatmap_containers) ==
    IF heatmap_containers = <<>> THEN <<>>
    ELSE Head(heatmap_containers) \o tiles_of(Tail(heatmap_containers))

RECURSIVE over_1a(_, _)
over_1a(acc, tiles) ==
    IF tiles = <<>> THEN acc ELSE over_1a(method_1a(acc, Head(tiles)), Tail(tiles))

RECURSIVE over_1b(_, _)
over_1b(acc, potential_tiles) ==
    IF potential_tiles = <<>> THEN acc
    ELSE over_1b(method_1b(acc, Head(potential_tiles)), Tail(potential_tiles))

RECURSIVE over_2(_, _)
over_2(acc, all_text_elements) ==
    IF all_text_elements = <<>> THEN acc
    ELSE over_2(method_2(acc, Head(all_text_elements)), Tail(all_text_elements))

\* get_heatmap: stocks after Methods 1a, 1b and, below three stocks, 2
stocks_of(page) ==
    LET start == [stocks |-> <<>>, seen_symbols |-> {}, skip_bound |-> FALSE]
        m1 == over_1b(over_1a(start, tiles_of(page.heatmap_containers)),
                      page.potential_tiles)
    IN  IF Len(m1.stocks) < 3 THEN over_2(m1, page.all_text_elements).stocks
        ELSE m1.stocks

\* get_heatmap: unique_stocks, each symbol once
RECURSIVE unique_stocks_from(_, _)
unique_stocks_from(stocks, seen) ==
    IF stocks = <<>> THEN <<>>
    ELSE IF Head(stocks).symbol \in seen
         THEN unique_stocks_from(Tail(stocks), seen)
         ELSE <<Head(stocks)>>
              \o unique_stocks_from(Tail(stocks), seen \cup {Head(stocks).symbol})

unique_stocks(stocks) == unique_stocks_from(stocks, {})

\* get_heatmap, from the tiles found to the value returned
get_heatmap(category_key, index_name, page, ts) ==
    [kind |-> "dict",
     index_name |-> index_name,
     category |-> categories[category_key],
     total_stocks |-> Len(unique_stocks(stocks_of(page))),
     scrape_timestamp |-> ts,
     stocks |-> unique_stocks(stocks_of(page))]

\* what the page may show after a category is selected
IndexPages ==
    LET
        card_nifty50 == Element(<<"N","I","F","T","Y"," ","5","0","\n","2","2",",","0","0","0",".","5","0","\n","+","1",".","2","0","%">>)
        card_bank == Element(<<" ","N","I","F","T","Y"," ","B","A","N","K"," ","\n","4","8",",","0","0","0">>)
        card_it == Element(<<"N","i","f","t","y"," ","I","T">>)
        card_login == Element(<<"L","O","G","I","N">>)
    IN
    {[cards |-> <<>>, nifty_elements |-> <<>>],
     [cards |-> <<card_nifty50, card_bank, card_nifty50, card_login>>,
      nifty_elements |-> <<card_it>>],
     [cards |-> <<card_login, Stale>>,
      nifty_elements |-> <<card_it, Stale, card_it, card_nifty50>>]}

\* what the page may show after an index is clicked
HeatmapPages ==
    LET
        tile_tcs == Tile(TRUE, <<"T","C","S","\n","3",",","5","0","0",".","0","0"," ","+","1",".","2","5","%">>, Transparent, <<Transparent, "rgb(0, 128, 0)">>)
        tile_infy == Tile(TRUE, <<"I","N","F","Y","\n","1",",","5","0","0","\n","-","0",".","5","0","%">>, "rgb(200, 0, 0)", <<>>)
        tile_mm == Tile(TRUE, <<"M","&","M","\n","2",",","0","0","0",".","1","0">>, Raises, <<Raises, Transparent>>)
        tile_hdfc == Tile(TRUE, <<"H","D","F","C","\n","1",",","6","0","0">>, Raises, <<>>)
        tile_rel == Tile(TRUE, <<"R","E","L","\n","2",",","9","0","0"," ","-","0",".","1">>, "rgb(128, 128, 128)", <<Raises, "rgb(128, 128, 128)">>)
        tile_hidden == Tile(FALSE, <<"S","B","I","N","\n","8","0","0">>, "rgb(128, 128, 128)", <<>>)
        tile_number == Tile(TRUE, <<"1","2",".","5","\n","3","4">>, "rgb(128, 128, 128)", <<"rgb(128, 128, 128)">>)
        tile_nav == Tile(TRUE, <<"D","o","w","n","l","o","a","d","\n","1">>, "rgb(128, 128, 128)", <<>>)
        tile_word == Tile(TRUE, <<"T","o","p"," ","G","a","i","n","e","r","s"," ","T","o","d","a","y"," ","A","r","e"," ","L","i","s","t","e","d"," ","B","e","l","o","w","\n","5">>, "rgb(128, 128, 128)", <<>>)
    IN
    {[heatmap_containers |-> <<>>, potential_tiles |-> <<>>,
      all_text_elements |-> <<tile_tcs>>],
     [heatmap_containers |-> << <<tile_tcs, tile_tcs, tile_hidden>>, <<tile_infy>> >>,
      potential_tiles |-> <<tile_tcs, tile_mm, tile_rel, tile_infy, tile_number, tile_nav>>,
      all_text_elements |-> <<tile_word, tile_tcs>>],
     [heatmap_containers |-> <<>>,
      potential_tiles |-> <<tile_hdfc, tile_infy, tile_infy, tile_nav>>,
      all_text_elements |-> <<tile_hdfc, tile_word, tile_nav, tile_word, tile_infy>>],
     [heatmap_containers |-> << <<tile_number>> >>,
      potential_tiles |-> <<tile_tcs, tile_infy, tile_mm, tile_tcs>>,
      all_text_elements |-> <<tile_hdfc>>]}

\* the query strings a client may send
CategoryArgs ==
    {[given |-> FALSE, text |-> ""], [given |-> TRUE, text |-> "sectoral"],
     [given |-> TRUE, text |-> "bogus"]}
IndexArgs ==
    {[given |-> FALSE, text |-> ""], [given |-> TRUE, text |-> ""],
     [given |-> TRUE, text |-> "NIFTY IT"]}

\* request.args.get('category', 'broad-market')
category_of(req) == IF req.category.given THEN req.category.text ELSE "broad-market"

\* category not in heatmap_service.categories
invalid_category_never(category) == FALSE
invalid_category(category) == category \notin DOMAIN categories

\* a request arrives and Flask gives it a thread
HeatRequest(h) ==
    /\ heat.pc[h] = "idle"
    /\ \E endpoint \in {"/indices", "/heatmap"}, category \in CategoryArgs,
          index \in IndexArgs :
         heat' = [heat EXCEPT
                    !.pc[h] = "route",
                    !.req[h] = [endpoint |-> endpoint, category |-> category,
                                index |-> IF endpoint = "/heatmap" THEN index
                                          ELSE [given |-> FALSE, text |-> ""]],
                    !.ret[h] = None,
                    !.resp[h] = NoResponse,
                    !.took[h] = FALSE,
                    !.ops[h] = 0,
                    !.page[h] = [cards |-> <<>>, nifty_elements |-> <<>>]]
    /\ UNCHANGED <<pc, driver, jobs, due, todo, call, fs, last_data, now, api,
               resp, walk, saved, faults, unhealed, scrape>>

\* the route up to the call of the service: 400 for /heatmap without index
\* and for a category that is not a key of categories
HeatValidate(h) ==
    /\ heat.pc[h] = "route"
    /\ heat' =
         IF heat.req[h].endpoint = "/heatmap"
            /\ (~ heat.req[h].index.given \/ heat.req[h].index.text = "")
         THEN [heat EXCEPT
                 !.pc[h] = "done",
                 !.resp[h] = [status |-> 400, success |-> FALSE,
                              error |-> "Missing required parameter: index"]]
         ELSE IF invalid_category(category_of(heat.req[h]))
         THEN [heat EXCEPT
                 !.pc[h] = "done",
                 !.resp[h] = [status |-> 400, success |-> FALSE,
                              error |-> "Invalid category"]]
         ELSE [heat EXCEPT !.pc[h] = "wait"]
    /\ UNCHANGED <<pc, driver, jobs, due, todo, call, fs, last_data, now, api,
               resp, walk, saved, faults, unhealed, scrape>>

\* with driver_lock, entered without waiting for the lock
HeatAcquire_NoLock(h) ==
    /\ heat.pc[h] = "wait"
    /\ heat' = [heat EXCEPT !.pc[h] = "init", !.lock = h, !.took[h] = TRUE]
    /\ UNCHANGED <<pc, driver, jobs, due, todo, call, fs, last_data, now, api,
               resp, walk, saved, faults, unhealed, scrape>>

\* get_indices, get_heatmap: with driver_lock, entered when the lock is free
HeatAcquire(h) ==
    /\ heat.pc[h] = "wait"
    /\ heat.lock = "free"
    /\ heat' = [heat EXCEPT !.pc[h] = "init", !.lock = h, !.took[h] = TRUE]
    /\ UNCHANGED <<pc, driver, jobs, due, todo, call, fs, last_data, now, api,
               resp, walk, saved, faults, unhealed, scrape>>

\* return None inside with driver_lock: the lock is released
ReturnNone(h) ==
    [heat EXCEPT !.pc[h] = "respond", !.ret[h] = None, !.lock = "free"]

\* if not self.driver: _init_driver(); a Chrome that starts stays in
\* self.driver for the requests that follow
HeatInitDriver(h) ==
    /\ heat.pc[h] = "init"
    /\ \/ /\ heat.driver = "none"
          /\ \/ heat' = [heat EXCEPT !.pc[h] = "navigate", !.driver = "up",
                                     !.ops[h] = @ + 1]
             \/ heat' = [ReturnNone(h) EXCEPT !.ops[h] = @ + 1]
             \/ heat' = [ReturnNone(h) EXCEPT !.driver = "up", !.ops[h] = @ + 1]
       \/ /\ heat.driver = "up"
          /\ heat' = [heat EXCEPT !.pc[h] = "navigate"]
    /\ UNCHANGED <<pc, driver, jobs, due, todo, call, fs, last_data, now, api,
               resp, walk, saved, faults, unhealed, scrape>>

\* _navigate_to_page
HeatNavigate(h) ==
    /\ heat.pc[h] = "navigate"
    /\ \/ heat' = [heat EXCEPT !.pc[h] = "select", !.ops[h] = @ + 1]
       \/ heat' = [ReturnNone(h) EXCEPT !.ops[h] = @ + 1]
    /\ UNCHANGED <<pc, driver, jobs, due, todo, call, fs, last_data, now, api,
               resp, walk, saved, faults, unhealed, scrape>>

\* _select_category: False for a key that is not in categories, without
\* touching the page
HeatSelect(h) ==
    /\ heat.pc[h] = "select"
    /\ IF category_of(heat.req[h]) \notin DOMAIN categories
       THEN heat' = ReturnNone(h)
       ELSE \/ heat' = [heat EXCEPT
                          !.pc[h] = IF heat.req[h].endpoint = "/heatmap"
                                    THEN "click" ELSE "scrape",
                          !.ops[h] = @ + 1]
            \/ heat' = [ReturnNone(h) EXCEPT !.ops[h] = @ + 1]
    /\ UNCHANGED <<pc, driver, jobs, due, todo, call, fs, last_data, now, api,
               resp, walk, saved, faults, unhealed, scrape>>

\* get_heatmap: _click_broad_market_index or _click_sectoral_index
HeatClick(h) ==
    /\ heat.pc[h] = "click"
    /\ \/ heat' = [heat EXCEPT !.pc[h] = "scrape", !.ops[h] = @ + 1]
       \/ heat' = [ReturnNone(h) EXCEPT !.ops[h] = @ + 1]
    /\ UNCHANGED <<pc, driver, jobs, due, todo, call, fs, last_data, now, api,
               resp, walk, saved, faults, unhealed, scrape>>

\* the rest of get_indices or get_heatmap: the elements are found and read,
\* the value is returned and the lock released; an exception gives None
HeatScrape(h) ==
    /\ heat.pc[h] = "scrape"
    /\ \/ heat' = [ReturnNone(h) EXCEPT !.ops[h] = @ + 1]
       \/ /\ heat.req[h].endpoint = "/indices"
          /\ \E page \in IndexPages :
               heat' = [heat EXCEPT !.pc[h] = "respond", !.lock = "free",
                                    !.ops[h] = @ + 1,
                                    !.page[h] = page,
                                    !.ret[h] = get_indices(page)]
       \/ /\ heat.req[h].endpoint = "/heatmap"
          /\ \E page \in HeatmapPages :
               heat' = [heat EXCEPT
                          !.pc[h] = "respond", !.lock = "free",
                          !.ops[h] = @ + 1,
                          !.page[h] = page,
                          !.ret[h] = get_heatmap(category_of(heat.req[h]),
                                                 heat.req[h].index.text,
                                                 page, now)]
    /\ UNCHANGED <<pc, driver, jobs, due, todo, call, fs, last_data, now, api,
               resp, walk, saved, faults, unhealed, scrape>>

\* the route after the call of the service
HeatRespond(h) ==
    /\ heat.pc[h] = "respond"
    /\ heat' =
         [heat EXCEPT
            !.pc[h] = "done",
            !.resp[h] =
               IF heat.ret[h] = None
               THEN [status |-> 500, success |-> FALSE,
                     error |-> "Failed to fetch"]
               ELSE IF heat.req[h].endpoint = "/indices"
               THEN [status |-> 200, success |-> TRUE,
                     category |-> category_of(heat.req[h]),
                     category_name |-> categories[category_of(heat.req[h])],
                     total |-> Len(heat.ret[h].value),
                     indices |-> heat.ret[h].value,
                     timestamp |-> now]
               ELSE [status |-> 200, success |-> TRUE, data |-> heat.ret[h]]]
    /\ UNCHANGED <<pc, driver, jobs, due, todo, call, fs, last_data, now, api,
               resp, walk, saved, faults, unhealed, scrape>>

\* the response is sent and the thread ends
HeatDone(h) ==
    /\ heat.pc[h] = "done"
    /\ heat' = [heat EXCEPT !.pc[h] = "idle"]
    /\ UNCHANGED <<pc, driver, jobs, due, todo, call, fs, last_data, now, api,
               resp, walk, saved, faults, unhealed, scrape>>

---------------------------------------------------------------------------
(* Specifications.                                                         *)

\* start_all.py: the monitor threads and the API thread of one process,
\* with clients asking for first pages
Next ==
    \/ MonitorStep
    \/ ApiRequest
    \/ ApiServe
    \/ ApiDone

Spec == Init /\ [][Next]_vars

\* one monitor run on its own (python crd_monitor.py or python
\* announcements_monitor.py) beside an API process
InitSolo ==
    /\ \E m \in Monitors : InitMonitors({m})
    /\ fs = LeftoverFiles
    /\ api = NoRequest
    /\ resp = NoResponse
    /\ walk = NoWalk
    /\ scrape = NoScrape
    /\ heat = NoHeat

SoloSpec == InitSolo /\ [][Next]_vars

\* the same with a user at the terminal, who may press Ctrl+C
NextStop ==
    \/ Next
    \/ \E t \in Monitors : KeyboardInterrupt(t)

StopSpec == InitSolo /\ [][NextStop]_vars

\* the same, with the thread of the monitor scheduled again and again: a
\* thread that can take a step (time passing until the job's next_run
\* included) eventually takes one
LiveSolo == SoloSpec /\ WF_vars(MonitorStep)

\* the API alone (start_api_only.py), over the files it finds: each
\* snapshot file of the default market absent, cut short, or a snapshot
ApiPaths == {filepath_of(e, s_equity) : e \in Endpoints}

FileContents == {Truncated} \cup {Result(1, Rows(n)) : n \in 0..MaxRows}

\* records of a snapshot larger than the largest page
BigRows == MaxPerPage + 2

InitApi ==
    /\ InitMonitors({})
    /\ \/ \E present \in SUBSET ApiPaths, c \in FileContents :
            fs = [p \in FsPaths |-> IF p \in present THEN c ELSE Absent]
       \/ \E big \in ApiPaths :
            fs = [p \in FsPaths |-> IF p = big THEN Result(1, Rows(BigRows))
                                    ELSE Absent]
    /\ api = NoRequest
    /\ resp = NoResponse
    /\ walk = NoWalk
    /\ scrape = NoScrape
    /\ heat = NoHeat

NextApi ==
    \/ ApiRequestAny
    \/ ApiServe
    \/ ApiHealth
    \/ ApiDone
    \/ WalkStart
    \/ WalkCollect
    \/ WalkReset

ApiSpec == InitApi /\ [][NextApi]_vars

\* one scrape_all_pages of either monitor, over the pages the site may show
InitScrape ==
    /\ InitMonitors({})
    /\ fs = LeftoverFiles
    /\ api = NoRequest
    /\ resp = NoResponse
    /\ walk = NoWalk
    /\ scrape = NoScrape
    /\ heat = NoHeat

NextScrape ==
    \/ ScrapeBegin
    \/ MaxPagesReached
    \/ ExtractPage
    \/ NoNextPage
    \/ ClickFails
    \/ NextPage
    \/ Convert

ScrapeSpec == InitScrape /\ [][NextScrape]_vars

\* the same, with the thread that runs scrape_all_pages scheduled again and
\* again: every call on the driver returns or raises within its timeout
LiveScrape == ScrapeSpec /\ WF_vars(NextScrape)

\* python heatmap_api.py: the server, its request threads and the service
InitHeat ==
    /\ InitMonitors({})
    /\ fs = LeftoverFiles
    /\ api = NoRequest
    /\ resp = NoResponse
    /\ walk = NoWalk
    /\ scrape = NoScrape
    /\ heat = NoHeat

NextHeat ==
    \/ \E h \in Handlers : HeatRequest(h)
    \/ \E h \in Handlers : HeatValidate(h)
    \/ \E h \in Handlers : HeatAcquire(h)
    \/ \E h \in Handlers : HeatInitDriver(h)
    \/ \E h \in Handlers : HeatNavigate(h)
    \/ \E h \in Handlers : HeatSelect(h)
    \/ \E h \in Handlers : HeatClick(h)
    \/ \E h \in Handlers : HeatScrape(h)
    \/ \E h \in Handlers : HeatRespond(h)
    \/ \E h \in Handlers : HeatDone(h)

HeatSpec == InitHeat /\ [][NextHeat]_vars

---------------------------------------------------------------------------
(* The claims.                                                             *)

\* C1: a monitor's run_single_scrape is executed only by the thread that
\* called that monitor's start_monitoring: no thread ever has another
\* monitor's run_single_scrape on its stack.
C1_OwnThreadOnly ==
    \A t \in Monitors : call[t] # NoCall => call[t].mon = t

\* C2: at most one scrape cycle of a monitor is in progress at any time: no
\* two threads execute run_single_scrape of the same monitor at once.
C2_NoOverlap ==
    \A t1, t2 \in Monitors :
        (t1 # t2 /\ call[t1] # NoCall /\ call[t2] # NoCall)
            => call[t1].mon # call[t2].mon

\* a step in which monitor m fails: its thread gives up in start_monitoring
\* (the driver cannot be initialised), or a cycle of it fails (the scrape,
\* the write of the snapshot, or an exception in run_single_scrape)
FailureOf(m) ==
    \/ StartMonitoring(m) /\ pc'[m] = "exited"
    \/ \E t \in Monitors :
         /\ call[t].mon = m
         /\ \/ ScrapeFail(t)
            \/ CleanupRaises(t)
            \/ SaveLatest(t) /\ faults' # faults

\* what such a step leaves alone: every other monitor's thread stays alive,
\* its job stays scheduled (and due, if it was), its cycles in progress, its
\* driver, its last_data and its snapshot file are untouched; so are the
\* API's request and response
Unaffected(m) ==
    /\ \A o \in Monitors \ {m} :
         /\ pc[o] # "exited" => pc'[o] # "exited"
         /\ pc[o] \in {"initial", "loop", "pending"}
                => pc'[o] \in {"initial", "loop", "pending"}
         /\ o \in jobs => o \in jobs'
         /\ o \in due => o \in due'
         /\ \A t \in Monitors : call[t].mon = o => call'[t] = call[t]
         /\ driver'[o] = driver[o]
         /\ last_data'[o] = last_data[o]
         /\ fs'[LatestPath[o]] = fs[LatestPath[o]]
    /\ api' = api
    /\ resp' = resp

\* C3: a failure of one monitor (driver not initialised, a failed cycle, its
\* thread gone) does not affect the others: every step in which a monitor
\* fails leaves every other monitor running, scheduled and with its state
\* and snapshot as they were, and leaves the API as it was.
C3_FailureIsolated ==
    [][\A m \in Monitors : FailureOf(m) => Unaffected(m)]_vars

\* one monitor has failed (its thread is gone, or its session is dead),
\* while another is in a scheduled cycle with a result to write and the
\* API has answered a request with that monitor's snapshot
C3_Witness ==
    \E m \in Monitors, o \in Monitors :
        /\ m # o
        /\ pc[m] = "exited" \/ m \in unhealed
        /\ pc[o] = "pending" /\ call[o].mon = o /\ call[o].at = "save"
        /\ api.state = "served" /\ resp.success
        /\ filepath_of(api.endpoint, api.market) = LatestPath[o]

\* the file the request in hand reads
RequestFile == fs[filepath_of(api.endpoint, api.market)]

\* C4: pagination partitions the snapshot: the data of pages 1, 2, ...,
\* total_pages, asked with one per_page of 1..1000 and put end to end, are
\* the snapshot's data list, and none of these pages is empty.
C4_PagesPartition ==
    walk.state = "done" => walk.acc = RequestFile.data /\ walk.nonempty

\* a client has read a snapshot of several pages to the end
C4_Witness ==
    /\ walk.state = "done"
    /\ resp.pagination.total_pages >= 2
    /\ resp.pagination.page = resp.pagination.total_pages

\* C5: each endpoint answers 404 with success false when its snapshot file
\* is absent, whatever page and per_page, and answers with success when
\* the file holds a well-formed snapshot.
C5_AbsentIs404PresentIsSuccess ==
    api.state = "served" =>
        /\ (filepath_of(api.endpoint, api.market) \notin FsPaths \/ RequestFile = Absent)
              => resp.status = 404 /\ ~ resp.success
        /\ (filepath_of(api.endpoint, api.market) \in FsPaths /\ RequestFile.kind = "json")
              => resp.status = 200 /\ resp.success

\* a scrape attempt of monitor m is under way: some thread is in
\* scrape_all_pages for it
Attempt(m) ==
    \E t \in Monitors : call[t].mon = m /\ call[t].at = "scrape"

\* C6: no failed cycle stops the polling: a job once scheduled stays
\* scheduled, and whenever the monitor's thread is back in its loop (after a
\* cycle that failed as after one that succeeded) a further scrape attempt
\* of the monitor follows.
C6_RetriesOnNextTick ==
    /\ [][jobs \subseteq jobs']_vars
    /\ \A m \in Monitors : (pc[m] = "loop") ~> Attempt(m)

\* a scheduled scrape attempt under way after a cycle of the monitor failed
\* on a dead session
C6_Witness ==
    \E m \in Monitors :
        m \in unhealed /\ pc[m] = "pending" /\ call[m].mon = m /\ call[m].at = "scrape"

\* C7: after a cycle of a monitor has failed on an unusable browser
\* session, _init_driver is eventually run for that monitor.
C7_SessionReinitialised ==
    \A m \in Monitors : (m \in unhealed) ~> (m \notin unhealed)

\* no run_single_scrape of monitor m is in progress
Quiet(m) == \A t \in Monitors : call[t].mon # m

\* C8: between cycles, a monitor that has had a successful cycle has its
\* snapshot file holding exactly the result of its most recent successful
\* cycle, which is also its last_data.
C8_FileIsLastResult ==
    \A m \in Monitors :
        (Quiet(m) /\ last_data[m] # None) => fs[LatestPath[m]] = last_data[m]

\* a file name of the form latest_<market>.json
is_latest_market_json(filename) ==
    startswith(filename, s_latest_) /\ endswith(filename, s_json)

\* C9: no step deletes a latest_<market>.json file of an output directory,
\* whatever the market, and no step deletes a file that is not JSON.
C9_CleanupKeepsLatest ==
    [][\A p \in FsPaths :
         (fs[p] # Absent /\ fs'[p] = Absent)
            => /\ ~ is_latest_market_json(p[2])
               /\ endswith(lower(p[2]), s_json)]_vars

\* C10: a successful response to a request that began after a save_latest
\* of the request's file had completed carries that snapshot or one written
\* after it: its scrape_timestamp is that of the floor-th write of the file
\* or of a later write.
C10_NoStaleSnapshot ==
    (api.state = "served" /\ resp.success /\ api.floor >= 1)
        => \E i \in api.floor..Len(saved[filepath_of(api.endpoint, api.market)]) :
              saved[filepath_of(api.endpoint, api.market)][i]
                  = resp.metadata.scrape_timestamp

\* a request that began after the second write of its file has been
\* answered with that second snapshot
C10_Witness ==
    /\ api.state = "served"
    /\ resp.success
    /\ api.floor = 2
    /\ resp.metadata.scrape_timestamp
          = saved[filepath_of(api.endpoint, api.market)][2]

\* C11: the result of a scrape has the shape {metadata, data}, its
\* metadata carries scrape_timestamp, total_records, total_pages, source_url
\* and headers, and total_records is the length of data, which is the
\* number of rows _extract_table_data returned over all the pages scraped.
C11_SnapshotShape ==
    scrape.state = "done" =>
        /\ {"metadata", "data"} \subseteq DOMAIN scrape.result
        /\ {"scrape_timestamp", "total_records", "total_pages", "source_url",
            "headers"} \subseteq DOMAIN scrape.result.metadata
        /\ scrape.result.metadata.total_records = Len(scrape.result.data)
        /\ Len(scrape.result.data) = scrape.rows
        /\ scrape.result.metadata.headers = scrape.headers

\* a scrape of two pages is done, with three rows or more, one of them with
\* fewer cells than there are headers
C11_Witness ==
    /\ scrape.state = "done"
    /\ scrape.calls >= 2
    /\ scrape.rows >= 3
    /\ \E i \in DOMAIN scrape.all_data :
         Len(scrape.all_data[i]) < Len(scrape.headers)

\* ceil(a / b) for b # 0
ceil_div(a, b) == 0 - floordiv(0 - a, b)

\* C12: a successful response of a data endpoint has exactly the keys
\* success, metadata, pagination and data (beside its HTTP status), with
\* total_records the number of records of the snapshot, total_pages =
\* ceil(total_records / per_page), has_next iff page < total_pages,
\* has_prev iff page > 1, and at most per_page records in data.
C12_ResponseShape ==
    (api.state = "served" /\ resp.success) =>
        /\ DOMAIN resp \ {"status"} = {"success", "metadata", "pagination", "data"}
        /\ resp.pagination.total_records = Len(RequestFile.data)
        /\ resp.pagination.per_page # 0 =>
              resp.pagination.total_pages
                  = ceil_div(resp.pagination.total_records, resp.pagination.per_page)
        /\ resp.pagination.has_next
              <=> resp.pagination.page < resp.pagination.total_pages
        /\ resp.pagination.has_prev <=> resp.pagination.page > 1
        /\ Len(resp.data) <= resp.pagination.per_page

\* C13: in a successful response page is 1 when the page parameter is absent
\* or no integer, per_page is 50 when the per_page parameter is absent or no
\* integer and min(requested, 1000) otherwise, and data holds at most 1000
\* records.
C13_DefaultsAndCap ==
    (api.state = "served" /\ resp.success) =>
        /\ ~ (api.page.given /\ is_int(api.page.text))
              => resp.pagination.page = 1
        /\ ~ (api.per_page.given /\ is_int(api.per_page.text))
              => resp.pagination.per_page = 50
        /\ (api.per_page.given /\ is_int(api.per_page.text))
              => resp.pagination.per_page
                    = IF int(api.per_page.text) <= 1000
                      THEN int(api.per_page.text) ELSE 1000
        /\ Len(resp.data) <= 1000

\* the number of the four snapshot files of /health that exist
ReadyCount ==
    Cardinality({k \in DOMAIN HealthFiles : fs[HealthFiles[k]] # Absent})

\* C14: /health answers 200 whatever the files; its status is healthy iff
\* the four snapshot files exist, starting iff some but not all exist and
\* initializing iff none exists; ready is '<k>/4' for the k files that
\* exist, and monitors tells of each file whether it exists.
C14_Health ==
    api.state = "health" =>
        /\ resp.status = 200
        /\ resp.body.status = "healthy" <=> ReadyCount = 4
        /\ resp.body.status = "starting" <=> ReadyCount \in 1..3
        /\ resp.body.status = "initializing" <=> ReadyCount = 0
        /\ resp.body.ready = <<Digits[ReadyCount + 1], "/", "4">>
        /\ DOMAIN resp.body.monitors = DOMAIN HealthFiles
        /\ \A k \in DOMAIN HealthFiles :
              resp.body.monitors[k] <=> fs[HealthFiles[k]] # Absent

\* /health has answered while some of the four files exist and some do not
C14_Witness ==
    /\ api.state = "health"
    /\ ReadyCount \in 1..3
    /\ resp.body.status = "starting"

\* C15: the record of a scraped row maps headers[i] to the i-th cell value
\* for every i up to the smaller of the two counts, with exactly these
\* headers as keys, in header order: all the headers when the row has as
\* many cells or more (the extra cells dropped), the first len(row) headers
\* when it has fewer.
C15_HeadersLineUp ==
    scrape.state = "done" =>
        \A i \in DOMAIN scrape.all_data :
            LET row == scrape.all_data[i]
                rec == scrape.result.data[i]
                n   == Min(Len(row), Len(scrape.headers))
            IN  /\ Len(rec) = n
                /\ \A j \in 1..n : rec[j] = <<scrape.headers[j], row[j]>>

\* C16: in both monitors a cell with a hyperlink of non-empty href is stored
\* as an object with the keys text, link and type, and any other cell as a
\* plain string; in the Announcements monitor type is pdf when the href
\* contains .pdf, else xbrl when it contains xbrl, else link.
C16_LinkCells ==
    scrape.state = "done" =>
        \A i \in DOMAIN scrape.cells : \A j \in DOMAIN scrape.cells[i] :
            LET c == scrape.cells[i][j]
                v == scrape.all_data[i][j]
            IN  IF c.a.anchor /\ c.a.href # <<>>
                THEN /\ DOMAIN v = {"text", "link", "type"}
                     /\ v.text = strip(c.text)
                     /\ v.link = c.a.href
                     /\ scrape.m = "Announcements" =>
                           v.type = IF contains(lower(c.a.href), s_pdf) THEN "pdf"
                                    ELSE IF contains(lower(c.a.href), s_xbrl) THEN "xbrl"
                                    ELSE "link"
                ELSE v = py_str(strip(c.text))

\* C20: for every outcome of the page loop, metadata.total_pages is the
\* number of times _extract_table_data was called in the cycle.
C20_TotalPagesIsPagesScraped ==
    scrape.state = "done" => scrape.result.metadata.total_pages = scrape.calls

\* the steps of a request that work on heatmap_service.driver
BrowserSteps == {"init", "navigate", "select", "click", "scrape"}

\* C17: at most one request at a time executes browser operations (driver
\* initialisation, navigation, category selection, clicking, scraping) on
\* the shared driver, and the request that does holds driver_lock.
C17_DriverSerialised ==
    /\ Cardinality({h \in Handlers : heat.pc[h] \in BrowserSteps}) <= 1
    /\ \A h \in Handlers : heat.pc[h] \in BrowserSteps => heat.lock = h

\* a /heatmap request is in the browser while an /indices request that
\* passed validation waits for the lock
C17_Witness ==
    \E h, g \in Handlers :
        /\ heat.pc[h] = "click" /\ heat.req[h].endpoint = "/heatmap"
        /\ heat.pc[g] = "wait" /\ heat.req[g].endpoint = "/indices"
        /\ heat.lock = h

\* /heatmap without an index parameter, or a category outside the four keys
Rejected(req) ==
    \/ req.endpoint = "/heatmap" /\ ~ req.index.given
    \/ req.category.given
       /\ req.category.text \notin {"broad-market", "sectoral", "thematic", "strategy"}

\* C18: a request without index (/heatmap) or with a category outside
\* broad-market, sectoral, thematic, strategy is answered 400 without taking
\* driver_lock or touching the browser; any other request whose scrape
\* returns None is answered 500 with success false; only a request whose
\* scrape succeeded is answered with success true.
C18_Validation ==
    \A h \in Handlers :
        /\ (heat.pc[h] # "idle" /\ Rejected(heat.req[h]))
              => ~ heat.took[h] /\ heat.ops[h] = 0 /\ heat.lock # h
        /\ heat.pc[h] = "done" =>
              /\ Rejected(heat.req[h])
                    => heat.resp[h].status = 400 /\ ~ heat.resp[h].success
              /\ (heat.took[h] /\ heat.ret[h] = None)
                    => heat.resp[h].status = 500 /\ ~ heat.resp[h].success
              /\ heat.resp[h].success
                    => /\ ~ Rejected(heat.req[h])
                       /\ heat.took[h]
                       /\ heat.ret[h] # None
                       /\ heat.resp[h].status = 200

\* one request was answered 400 and the other, valid, 500 after its scrape
\* failed in the browser
C18_Witness ==
    \E h, g \in Handlers :
        /\ heat.pc[h] = "done" /\ Rejected(heat.req[h]) /\ heat.resp[h].status = 400
        /\ heat.pc[g] = "done" /\ ~ Rejected(heat.req[g]) /\ heat.took[g]
        /\ heat.ops[g] > 0 /\ heat.resp[g].status = 500

\* the elements of a list are pairwise distinct in the field key
Distinct(list, key) ==
    \A i, j \in DOMAIN list : list[i][key] = list[j][key] => i = j

\* C19: a successful /indices response has total = len(indices), pairwise
\* distinct names, and name, value and change in every entry; a successful
\* /heatmap response has total_stocks = len(stocks), pairwise distinct
\* symbols, symbol, price and change in every stock, the requested index as
\* index_name and the display name of the requested category as category.
C19_ListsDuplicateFree ==
    \A h \in Handlers :
        (heat.pc[h] = "done" /\ heat.resp[h].success) =>
            IF heat.req[h].endpoint = "/indices"
            THEN /\ heat.resp[h].total = Len(heat.resp[h].indices)
                 /\ Distinct(heat.resp[h].indices, "name")
                 /\ \A i \in DOMAIN heat.resp[h].indices :
                       {"name", "value", "change"} \subseteq DOMAIN heat.resp[h].indices[i]
            ELSE /\ heat.resp[h].data.total_stocks = Len(heat.resp[h].data.stocks)
                 /\ Distinct(heat.resp[h].data.stocks, "symbol")
                 /\ \A i \in DOMAIN heat.resp[h].data.stocks :
                       {"symbol", "price", "change"} \subseteq DOMAIN heat.resp[h].data.stocks[i]
                 /\ heat.resp[h].data.index_name = heat.req[h].index.text
                 /\ heat.resp[h].data.category
                       = (IF heat.req[h].category.given
                          THEN CASE heat.req[h].category.text = "sectoral" -> "Sectoral Indices"
                                 [] heat.req[h].category.text = "thematic" -> "Thematic Indices"
                                 [] heat.req[h].category.text = "strategy" -> "Strategy Indices"
                                 [] OTHER -> "Broad Market Indices"
                          ELSE "Broad Market Indices")

\* both lists were answered from pages that showed an index and a stock more
\* than once, with two entries or more left
C19_Witness ==
    \E h, g \in Handlers :
        /\ heat.pc[h] = "done" /\ heat.resp[h].success
        /\ heat.req[h].endpoint = "/indices"
        /\ heat.resp[h].total >= 2
        /\ Len(indices_of(heat.page[h].cards)) > heat.resp[h].total
        /\ heat.pc[g] = "done" /\ heat.resp[g].success
        /\ heat.req[g].endpoint = "/heatmap"
        /\ heat.resp[g].data.total_stocks >= 3
        /\ \E i, j \in DOMAIN heat.page[g].potential_tiles :
              i # j /\ heat.page[g].potential_tiles[i] = heat.page[g].potential_tiles[j]

C22_NoPartialRead ==
    (api.state = "served" /\ api.floor >= 1 /\ faults = 0) =>
        /\ resp.success
        /\ \E i \in DOMAIN saved[filepath_of(api.endpoint, api.market)] :
              saved[filepath_of(api.endpoint, api.market)][i] = resp.metadata.scrape_timestamp

\* C23: a cycle whose scrape_all_pages returns None changes nothing on
\* disk: the step leaves the snapshot file, every other file, the record of
\* the snapshots written and last_data of every monitor as they were.
C23_FailedCycleKeepsFiles ==
    [][\A t \in Monitors :
         ScrapeFail(t) => /\ fs' = fs
                          /\ last_data' = last_data
                          /\ saved' = saved]_vars

\* a monitor whose session died in a failed cycle after a successful one is
\* between cycles, and its file and last_data hold the snapshot of the
\* successful cycle
C23_Witness ==
    \E m \in Monitors :
        /\ m \in unhealed /\ Quiet(m)
        /\ last_data[m] # None
        /\ fs[LatestPath[m]] = last_data[m]
        /\ saved[LatestPath[m]] # <<>>

C25_NeverInternalError ==
    (/\ api.state = "served"
     /\ api.page.given /\ is_int(api.page.text)
     /\ api.per_page.given /\ is_int(api.per_page.text)
     /\ filepath_of(api.endpoint, api.market) \in FsPaths
     /\ RequestFile.kind \in {"absent", "json"}) =>
        /\ resp # internal_error
        /\ resp.status \in {200, 404}

=============================================================================
